---- MODULE Spec2Model ----
(***************************************************************************)
(* Action-code relayer: the lifecycle of one sealed action-code record in  *)
(* the TTL store, as driven by the Register, Resolve, Status, Attach and   *)
(* Finalize route handlers.  Every handler is split at the points where    *)
(* the code awaits the store, the chain adapter or the ledger; between two *)
(* awaits a handler runs without interleaving.                             *)
(***************************************************************************)
EXTENDS Integers, Sequences, FiniteSets, TLC

\* ------------------------------------------------------------------ bounds
MaxReqs == 2        \* request slots that may be in flight at the same time
MaxEpochs == 1      \* the clock covers (MaxEpochs + 1) code lifetimes
NumIVs == 1         \* distinct values randomBytes(16) may return

\* ------------------------------------------------------- program constants
CODE_TTL == 120000  \* protocol.getConfig().codeTTL, milliseconds
MsPerSec == 1000    \* the divisor of every "/ 1000"
T0 == MsPerSec      \* the clock value at which the model starts

Reqs == 1..MaxReqs
IVs == 1..NumIVs
Codes == {"c1", "c2"}
\* The code on which the timing and the race specifications run.
OneCode == {"c1"}
Pubkeys == {"P1"}
Chains == {"solana", "other"}
TxPayloads == {"B1", "B2"}
Messages == {"M1"}
Signatures == {"S1", "S2"}
SignedMessages == {"SM1"}

\* Clock values: around the start and around the end of each code lifetime.
Offsets == {0, 1, CODE_TTL - 1}
Times == {T0 + k * CODE_TTL + d : k \in 0..MaxEpochs, d \in Offsets}

\* The timestamps a Register request carries: the clock at the start of a lifetime.
RegTimes == {T0 + d : d \in {0, 1}}

Max(a, b) == IF a >= b THEN a ELSE b
Floor(a, b) == a \div b
Ceil(a, b) == -((-a) \div b)

\* ------------------------------------------------------------ code derivation
\* sha256 is modelled symbolically: an injective, non-invertible tag.
sha256(code) == [sha |-> code]
\* Variant: the lookup key does not depend on the code.
getKey_prefixOnly(hash) == [prefix |-> "actioncode", hash |-> [sha |-> ""]]
getKey(hash) == [prefix |-> "actioncode", hash |-> hash]
deriveKey(code) == sha256(code)
StoreKeys == {getKey(sha256(c)) : c \in Codes}

\* ------------------------------------------------------------------ records
\* "" stands for an absent (undefined) or empty string: the handlers only
\* test these fields for truthiness.
NoTx == [present |-> FALSE, transaction |-> "", message |-> "",
         txSignature |-> "", signedMessage |-> ""]
\* Metadata: the two keys of MetaSchema; NoValue stands for a key that is not there.
NoValue == "undefined"
MetaKeys == {"description", "params"}
NoMeta == [k \in MetaKeys |-> NoValue]
Metas == {NoMeta,
          [description |-> "d1", params |-> "p1"],
          [description |-> "d2", params |-> NoValue]}
\* { ...a, ...b }
Merge(a, b) == [k \in MetaKeys |-> IF b[k] # NoValue THEN b[k] ELSE a[k]]

NoRec == [code |-> "", pubkey |-> "", chain |-> "", timestamp |-> 0,
          status |-> "", transaction |-> NoTx, metadata |-> NoMeta]

\* ActionCode.fromPayload at registration.
NewRecord(code, pubkey, chain, timestamp) ==
    [code |-> code, pubkey |-> pubkey, chain |-> chain, timestamp |-> timestamp,
     status |-> "pending", transaction |-> NoTx, metadata |-> NoMeta]

\* The status the Status route infers from a record.
StatusOf(rec) ==
    LET tx == rec.transaction
    IN  IF tx.txSignature # "" \/ tx.signedMessage # "" THEN "finalized"
        ELSE IF tx.transaction # "" \/ tx.message # "" THEN "resolved"
        ELSE "pending"

\* ------------------------------------------------------------- field codec
NoBlob == [iv |-> 0, key |-> sha256(""), pt |-> NoRec]
encryptField(value, code, iv) == [iv |-> iv, key |-> deriveKey(code), pt |-> value]
DecryptOk(blob, code) == blob.key = deriveKey(code)
decryptField(blob, code) == blob.pt

\* ------------------------------------------------- field codec on strings
MaxLen == 2         \* characters in a value that is sealed
BlockSize == 16     \* bytes in a block of aes-256-cbc

\* A string is a sequence of UTF-16 code units: a letter, the separator of the
\* sealed format, U+FFFD, and a surrogate code unit that has no partner.
Replacement == "U+FFFD"
Surrogate == "U+D800"
Chars == {"a", ":", Replacement, Surrogate}
Strings == UNION {[1..n -> Chars] : n \in 0..MaxLen}
WellFormed(text) == \A i \in 1..Len(text) : text[i] # Surrogate

\* cipher.update(value): the string is taken as UTF-8; a code unit that is
\* not part of a character is written as U+FFFD.
Utf8(ch) == IF ch = "a" THEN <<97>> ELSE IF ch = ":" THEN <<58>> ELSE <<239, 191, 189>>
RECURSIVE Utf8Encode(_)
Utf8Encode(text) ==
    IF Len(text) = 0 THEN <<>> ELSE Utf8(text[1]) \o Utf8Encode(SubSeq(text, 2, Len(text)))
\* decrypted.toString('utf8'): bytes that are no UTF-8 become U+FFFD.
RECURSIVE Utf8Decode(_)
Utf8Decode(bytes) ==
    IF Len(bytes) = 0 THEN <<>>
    ELSE IF bytes[1] = 97 THEN <<"a">> \o Utf8Decode(SubSeq(bytes, 2, Len(bytes)))
    ELSE IF bytes[1] = 58 THEN <<":">> \o Utf8Decode(SubSeq(bytes, 2, Len(bytes)))
    ELSE IF Len(bytes) >= 3 /\ SubSeq(bytes, 1, 3) = <<239, 191, 189>>
    THEN <<Replacement>> \o Utf8Decode(SubSeq(bytes, 4, Len(bytes)))
    ELSE <<Replacement>> \o Utf8Decode(SubSeq(bytes, 2, Len(bytes)))

\* cipher.final(): PKCS#7 padding to whole blocks.
Pkcs7Pad(bytes) ==
    LET n == BlockSize - (Len(bytes) % BlockSize)
    IN  bytes \o [i \in 1..n |-> n]
\* decipher.final() throws unless the last block ends in a padding.
Pkcs7Valid(blocks) ==
    /\ Len(blocks) > 0 /\ Len(blocks) % BlockSize = 0
    /\ LET n == blocks[Len(blocks)]
       IN  n \in 1..BlockSize /\ \A i \in (Len(blocks) - n + 1)..Len(blocks) : blocks[i] = n
\* Variant: the padding stays on the deciphered bytes.
Pkcs7Unpad_kept(blocks) == blocks
Pkcs7Unpad(blocks) == SubSeq(blocks, 1, Len(blocks) - blocks[Len(blocks)])

\* aes-256-cbc as an ideal cipher: the ciphertext stands for the padded bytes
\* under a key and an IV, and only that key turns it back into them.
Cipher(key, iv, bytes) == [key |-> key, iv |-> iv, blocks |-> Pkcs7Pad(bytes)]
\* What the blocks may come out as under another key: bytes that end in no
\* padding, and bytes that happen to end in one.
WrongKeyBlocks == {[i \in 1..BlockSize |-> 200],
                   [i \in 1..BlockSize |-> IF i = BlockSize THEN 1 ELSE 200]}
\* createDecipheriv, update, final: the bytes, or final() throws; it throws on
\* a ciphertext that is not whole blocks, whatever the key.
Decipher(key, iv, ct, other) ==
    LET whole == Len(ct.blocks) > 0 /\ Len(ct.blocks) % BlockSize = 0
        blocks == IF key = ct.key /\ iv = ct.iv THEN ct.blocks ELSE other
    IN  [ok |-> whole /\ Pkcs7Valid(blocks),
         bytes |-> IF whole /\ Pkcs7Valid(blocks) THEN Pkcs7Unpad(blocks) ELSE <<>>]

\* A sealed string is hex digits and the separator: a run of hex digits is one
\* piece, which stands for the bytes it spells.  A string that was not sealed
\* may also hold characters that are neither.
Hex(bytes) == [sep |-> FALSE, hex |-> TRUE, of |-> bytes]
Colon == [sep |-> TRUE, hex |-> FALSE, of |-> 0]
Junk == [sep |-> FALSE, hex |-> FALSE, of |-> 0]
\* The index of the first character that is no hex digit, or one past the end.
FirstNonHex(part) ==
    IF \E i \in 1..Len(part) : ~part[i].hex
    THEN CHOOSE i \in 1..Len(part) : ~part[i].hex /\ \A j \in 1..(i - 1) : part[j].hex
    ELSE Len(part) + 1
\* Buffer.from(part, 'hex'): the bytes spelled up to the first character that
\* is no hex digit, as the sequence of the runs decoded; nothing is thrown.
FromHex(part) == [i \in 1..(FirstNonHex(part) - 1) |-> part[i].of]
\* The index of the first separator, or one past the end.
FirstSep(text) ==
    IF \E i \in 1..Len(text) : text[i].sep
    THEN CHOOSE i \in 1..Len(text) : text[i].sep /\ \A j \in 1..(i - 1) : ~text[j].sep
    ELSE Len(text) + 1
\* const [a, b] = encrypted.split(':')
SplitFirstTwo(text) ==
    LET i == FirstSep(text)
        rest == SubSeq(text, i + 1, Len(text))
    IN  <<SubSeq(text, 1, i - 1), SubSeq(rest, 1, FirstSep(rest) - 1)>>

\* Variant: every call uses the same IV.
encryptFieldString_fixedIv(value, code, iv) ==
    <<Hex(1), Colon, Hex(Cipher(deriveKey(code), 1, Utf8Encode(value)))>>
\* encryptField on a string, the IV being what randomBytes(16) returned.
encryptFieldString(value, code, iv) ==
    <<Hex(iv), Colon, Hex(Cipher(deriveKey(code), iv, Utf8Encode(value)))>>
\* decryptField on a sealed string: the string returned, or it throws.
\* createDecipheriv throws unless the IV is 16 bytes, and final() unless the
\* ciphertext is whole blocks: one run each, the ciphertext not cut.
decryptFieldString(encrypted, code, other) ==
    LET parts == SplitFirstTwo(encrypted)
        iv == FromHex(parts[1])
        ct == FromHex(parts[2])
    IN  IF Len(iv) # 1 \/ Len(ct) # 1 THEN [ok |-> FALSE, text |-> <<>>]
        ELSE LET out == Decipher(deriveKey(code), iv[1], ct[1], other)
             IN  [ok |-> out.ok, text |-> Utf8Decode(out.bytes)]

\* Strings that no encryptField returned, made from one that it did return.
Damages == {"no separator", "no iv", "no ciphertext", "cut ciphertext",
            "junk first", "junk after iv", "junk at end"}
Cut(piece) == Hex([piece.of EXCEPT !.blocks = SubSeq(@, 1, Len(@) - 1)])
Damage(kind, sealed) ==
    CASE kind = "no separator" -> <<sealed[1], sealed[3]>>
      [] kind = "no iv" -> <<Colon, sealed[3]>>
      [] kind = "no ciphertext" -> <<sealed[1], Colon>>
      [] kind = "cut ciphertext" -> <<sealed[1], Colon, Cut(sealed[3])>>
      [] kind = "junk first" -> <<Junk>> \o sealed
      [] kind = "junk after iv" -> <<sealed[1], Junk, Colon, sealed[3]>>
      [] kind = "junk at end" -> sealed \o <<Junk>>

\* FieldIVs: what randomBytes(16) may return to a call of encryptField.
FieldIVs == 1..(NumIVs + 1)
NoField == [phase |-> "empty", value |-> <<>>, code |-> "", iv |-> 0,
            sealed |-> <<>>, openCode |-> "", out |-> [ok |-> FALSE, text |-> <<>>],
            again |-> <<>>, iv2 |-> 0, given |-> <<>>, damage |-> "none"]

\* ------------------------------------------------------------ error class
\* An optional argument is <<>> when it is left out and <<v>> when it is given;
\* a details object is the set of its keys.
DefaultStatus == 400
\* new ActionCodesRelayerError(code, message, status = 400, details?)
ActionCodesRelayerError(code, message, status, details) ==
    [name |-> "ActionCodesRelayerError", code |-> code, message |-> message,
     status |-> IF Len(status) > 0 THEN status[1] ELSE DefaultStatus,
     details |-> details]
\* Variant: an empty details object is left out.
ErrorToJSON_dropsEmpty(err) ==
    IF Len(err.details) > 0 /\ err.details[1].keys # {}
    THEN [error |-> TRUE, code |-> err.code, message |-> err.message,
          status |-> err.status, details |-> err.details[1]]
    ELSE [error |-> TRUE, code |-> err.code, message |-> err.message,
          status |-> err.status]
\* toJSON() of the object: "this.details ?" is true of every object, {} included.
ErrorToJSON(err) ==
    IF Len(err.details) > 0
    THEN [error |-> TRUE, code |-> err.code, message |-> err.message,
          status |-> err.status, details |-> err.details[1]]
    ELSE [error |-> TRUE, code |-> err.code, message |-> err.message,
          status |-> err.status]
NoArgs == [code |-> "", message |-> "", status |-> <<>>, details |-> <<>>]
NoError == [phase |-> "none", args |-> NoArgs,
            err |-> ActionCodesRelayerError("", "", <<>>, <<>>),
            json |-> [error |-> FALSE]]

\* ------------------------------------------------------------------- store
NoEntry == [present |-> FALSE, blob |-> NoBlob, ex |-> 0, setAt |-> 0]
EvictAt(e) == e.setAt + e.ex * MsPerSec
\* redis.get: the entry, unless the store's own TTL has run out.
Live(e, t) == e.present /\ t < EvictAt(e)
\* redis.set accepts only a positive number of seconds.
ValidEx(x) == x >= 1

VARIABLES now,         \* Date.now()
          store,       \* the TTL store: one entry per lookup key
          req,         \* the request slots: each handler's position and locals
          sequential,  \* TRUE when requests run one after another
          field,       \* a string value on its way through encryptField and decryptField
          thrown       \* an ActionCodesRelayerError from its arguments to its JSON
vars == <<now, store, req, sequential, field, thrown>>

\* The JSON body of an error response, field by field as rendered.
NoBody == [error |-> NoValue, code |-> NoValue, status |-> NoValue]
\* Variant: the body does not repeat the status.
toJSON_noStatus(code, status) == [error |-> "true", code |-> code, status |-> NoValue]
\* ActionCodesRelayerError.toJSON
toJSON(code, status) == [error |-> "true", code |-> code, status |-> ToString(status)]
\* StatusErrorResponseSchema: the message and the literal "error".
StatusErrorBody(message) == [error |-> message, code |-> NoValue, status |-> "error"]

NoResp == [kind |-> "none", http |-> 0, status |-> "", expiresAt |-> 0,
           remainingInSeconds |-> 0, transaction |-> NoTx, metadata |-> NoMeta,
           hasTransaction |-> FALSE, hasMessage |-> FALSE,
           finalizedSignature |-> "", signedMessage |-> "", body |-> NoBody]
\* History: wrote, whether the request's store set took effect; saw, the state
\* of the record the request's get returned; over, the state of the record a
\* Register replaced; fault, what the store, the adapter or the ledger answered
\* when it did not answer well.  setNow is the Date.now() from which the
\* handler computed the TTL of the set it has issued.
IdleReq == [op |-> "none", pc |-> "idle", code |-> "", intent |-> "", payload |-> "",
            sig |-> "", smsg |-> "", chain |-> "", meta |-> NoMeta,
            found |-> FALSE, got |-> NoBlob,
            rec |-> NoRec, expiresAt |-> 0, setBlob |-> NoBlob, setEx |-> 0,
            setNow |-> 0, wrote |-> FALSE, saw |-> "", over |-> "", fault |-> "",
            resp |-> NoResp]

Error(kind, http) == [NoResp EXCEPT !.kind = kind, !.http = http,
                                    !.body = toJSON(kind, http)]
\* An error answer of the Status route.
StatusError(message, http) == [NoResp EXCEPT !.kind = "status-error", !.http = http,
                                             !.body = StatusErrorBody(message)]
Success == [NoResp EXCEPT !.kind = "success", !.http = 200]

\* A handler returns: its locals are gone; the slot keeps the request and the
\* response until it is recycled.
Answered(q, resp) ==
    [IdleReq EXCEPT !.op = q.op, !.pc = "done", !.code = q.code, !.intent = q.intent,
                    !.payload = q.payload, !.sig = q.sig, !.smsg = q.smsg,
                    !.chain = q.chain, !.meta = q.meta, !.wrote = q.wrote,
                    !.saw = q.saw, !.over = q.over, !.fault = q.fault, !.resp = resp]
Respond(r, resp) == req' = [req EXCEPT ![r] = Answered(req[r], resp)]
\* ... after its store set took effect.
RespondWritten(r, resp) ==
    req' = [req EXCEPT ![r] = Answered([req[r] EXCEPT !.wrote = TRUE], resp)]
\* The answer of "await redis.get" as the handler holds it.
Got(q, e, t) == [q EXCEPT !.found = Live(e, t),
                          !.got = IF Live(e, t) THEN e.blob ELSE NoBlob,
                          !.saw = IF Live(e, t) THEN StatusOf(e.blob.pt) ELSE "absent"]

InFlight(r) == req[r].pc \notin {"idle", "done"}
\* A new request takes the lowest free slot; when requests run one after
\* another, it starts only once every earlier one has been answered.
CanStart(r) == /\ req[r].pc = "idle"
               /\ \A q \in Reqs : q < r => req[q].pc # "idle"
               /\ sequential => \A q \in Reqs : req[q].pc = "idle"

\* Variant: every get reads the entry of the first code.
StoreGet_firstCode(code) == store[getKey(sha256("c1"))]
StoreGet(code) == store[getKey(sha256(code))]
StoreSet(key, blob, ex) ==
    store' = [store EXCEPT ![key] = [present |-> TRUE, blob |-> blob, ex |-> ex,
                                     setAt |-> now]]

Init == /\ now = T0
        /\ store = [k \in StoreKeys |-> NoEntry]
        /\ req = [r \in Reqs |-> IdleReq]
        /\ sequential = FALSE
        /\ field = NoField
        /\ thrown = NoError

InitSeq == /\ now = T0
           /\ store = [k \in StoreKeys |-> NoEntry]
           /\ req = [r \in Reqs |-> IdleReq]
           /\ sequential = TRUE
           /\ field = NoField
           /\ thrown = NoError

\* Date.now() moves forward.
Tick(t) == /\ t > now
           /\ now' = t
           /\ UNCHANGED <<store, req, sequential, field, thrown>>

\* Request-schema rejection (ZodError) or unparsable JSON: no store access.
BadRequest(r, op) ==
    /\ CanStart(r)
    /\ req' = [req EXCEPT ![r] = Answered([IdleReq EXCEPT !.op = op],
                          IF op = "status" THEN StatusError("Invalid code format", 400)
                          ELSE Error("INVALID_PAYLOAD", 400))]
    /\ UNCHANGED <<now, store, sequential, field, thrown>>

\* The response has been delivered; the slot is free again.
Recycle(r) ==
    /\ req[r].pc = "done"
    /\ req' = [req EXCEPT ![r] = IdleReq]
    /\ UNCHANGED <<now, store, sequential, field, thrown>>

\* ---------------------------------------------------------------- Register
isChainSupported(chain) == chain = "solana"

RemainingTime(timestamp, t) == Max(0, timestamp + CODE_TTL - t)
RemainingInSeconds(remaining) == Floor(remaining, MsPerSec)

\* Up to "await redis.set": chain and code validation, record construction, sealing.
RegisterCall(r, code, pubkey, chain, timestamp, metadata, valid, iv) ==
    /\ CanStart(r)
    /\ LET q == [IdleReq EXCEPT !.op = "register", !.code = code, !.chain = chain,
                                !.meta = metadata]
           rec == NewRecord(code, pubkey, chain, timestamp)
       IN  req' = [req EXCEPT ![r] =
              IF ~isChainSupported(chain)
              THEN Answered(q, Error("UNSUPPORTED_CHAIN", 400))
              ELSE IF ~valid
              THEN Answered(q, Error("INVALID_PAYLOAD", 400))
              ELSE [q EXCEPT !.pc = "r_setting", !.rec = rec,
                             !.expiresAt = timestamp + CODE_TTL,
                             !.setBlob = encryptField(rec, code, iv),
                             !.setEx = CODE_TTL]]
    /\ UNCHANGED <<now, store, sequential, field, thrown>>

\* Variant: the set is conditional on the key being free (DUPLICATE_CODE).
RegisterSet_unique(r, up) ==
    /\ req[r].op = "register" /\ req[r].pc = "r_setting"
    /\ LET q == req[r]
           rem == RemainingInSeconds(RemainingTime(q.rec.timestamp, now))
           was == StoreGet(q.rec.code)
       IN  IF ~up
           THEN /\ req' = [req EXCEPT ![r] = Answered([q EXCEPT !.fault = "set"],
                                                      Error("INVALID_PAYLOAD", 400))]
                /\ UNCHANGED store
           ELSE IF Live(was, now)
           THEN /\ Respond(r, Error("DUPLICATE_CODE", 409))
                /\ UNCHANGED store
           ELSE /\ StoreSet(getKey(sha256(q.rec.code)), q.setBlob, q.setEx)
                /\ req' = [req EXCEPT ![r] =
                       Answered([q EXCEPT !.wrote = TRUE, !.over = "absent"],
                                IF rem > 0
                                THEN [Success EXCEPT !.status = q.rec.status,
                                         !.expiresAt = q.rec.timestamp + CODE_TTL,
                                         !.remainingInSeconds = rem]
                                ELSE Error("INVALID_PAYLOAD", 400))]
    /\ UNCHANGED <<now, sequential, field, thrown>>
\* redis.set, then the response.
RegisterSet(r, up) ==
    /\ req[r].op = "register" /\ req[r].pc = "r_setting"
    /\ LET q == req[r]
           rem == RemainingInSeconds(RemainingTime(q.rec.timestamp, now))
           was == StoreGet(q.rec.code)
       IN  IF ~up
           THEN /\ req' = [req EXCEPT ![r] = Answered([q EXCEPT !.fault = "set"],
                                                      Error("INVALID_PAYLOAD", 400))]
                /\ UNCHANGED store
           ELSE /\ StoreSet(getKey(sha256(q.rec.code)), q.setBlob, q.setEx)
                /\ req' = [req EXCEPT ![r] =
                       Answered([q EXCEPT !.wrote = TRUE,
                                          !.over = IF Live(was, now) THEN StatusOf(was.blob.pt)
                                                   ELSE "absent"],
                                IF rem > 0
                                THEN [Success EXCEPT !.status = q.rec.status,
                                         !.expiresAt = q.rec.timestamp + CODE_TTL,
                                         !.remainingInSeconds = rem]
                                ELSE Error("INVALID_PAYLOAD", 400))]
    /\ UNCHANGED <<now, sequential, field, thrown>>

\* ----------------------------------------------------------------- Resolve
\* await redis.get
ResolveGet(r, code, up) ==
    /\ CanStart(r)
    /\ LET q == [IdleReq EXCEPT !.op = "resolve", !.code = code]
       IN  req' = [req EXCEPT ![r] =
              IF ~up THEN Answered([q EXCEPT !.fault = "get"], Error("UNKNOWN_ERROR", 500))
              ELSE [Got(q, StoreGet(code), now) EXCEPT !.pc = "v_got"]]
    /\ UNCHANGED <<now, store, sequential, field, thrown>>

\* Variant: an unexpired code is reported as pending.
ResolveStatus_pending(remaining) == IF remaining <= 0 THEN "expired" ELSE "pending"
\* Variant: the deadline itself still counts as active.
ResolveStatus_late(remaining) == IF remaining < 0 THEN "expired" ELSE "active"
ResolveStatus(remaining) == IF remaining <= 0 THEN "expired" ELSE "active"

\* Variant: the deadline is counted from the time of the request.
ResolveView_fromNow(rec, t) ==
    [Success EXCEPT !.status = ResolveStatus(CODE_TTL), !.expiresAt = t + CODE_TTL,
                    !.remainingInSeconds = RemainingInSeconds(CODE_TTL),
                    !.transaction = rec.transaction, !.metadata = rec.metadata]
ResolveView(rec, t) ==
    LET expiresAt == rec.timestamp + CODE_TTL
        remaining == Max(0, expiresAt - t)
    IN  [Success EXCEPT !.status = ResolveStatus(remaining), !.expiresAt = expiresAt,
                        !.remainingInSeconds = RemainingInSeconds(remaining),
                        !.transaction = rec.transaction, !.metadata = rec.metadata]

\* Variant: a read that finds the entry restarts its TTL.
ResolveRespond_touch(r) ==
    /\ req[r].op = "resolve" /\ req[r].pc = "v_got"
    /\ LET q == req[r]
       IN  /\ IF ~q.found THEN Respond(r, Error("CODE_NOT_FOUND", 404))
              ELSE IF ~DecryptOk(q.got, q.code)
              THEN Respond(r, Error("INVALID_PAYLOAD", 400))
              ELSE Respond(r, ResolveView(decryptField(q.got, q.code), now))
           /\ store' = [store EXCEPT ![getKey(sha256(q.code))].setAt =
                                         IF q.found THEN now ELSE @]
    /\ UNCHANGED <<now, sequential, field, thrown>>
ResolveRespond(r) ==
    /\ req[r].op = "resolve" /\ req[r].pc = "v_got"
    /\ LET q == req[r]
       IN  IF ~q.found THEN Respond(r, Error("CODE_NOT_FOUND", 404))
           ELSE IF ~DecryptOk(q.got, q.code) THEN Respond(r, Error("INVALID_PAYLOAD", 400))
           ELSE Respond(r, ResolveView(decryptField(q.got, q.code), now))
    /\ UNCHANGED <<now, store, sequential, field, thrown>>

\* ------------------------------------------------------------------ Status
\* await redis.get
StatusGet(r, code, up) ==
    /\ CanStart(r)
    /\ LET q == [IdleReq EXCEPT !.op = "status", !.code = code]
       IN  req' = [req EXCEPT ![r] =
              IF ~up THEN Answered([q EXCEPT !.fault = "get"],
                                   StatusError("Unknown error occurred", 500))
              ELSE [Got(q, StoreGet(code), now) EXCEPT !.pc = "s_got"]]
    /\ UNCHANGED <<now, store, sequential, field, thrown>>

\* Variant: past the deadline the status is reported as expired.
StatusView_expiring(rec, t) ==
    [Success EXCEPT !.status = IF t >= rec.timestamp + CODE_TTL THEN "expired"
                               ELSE StatusOf(rec),
                    !.expiresAt = rec.timestamp + CODE_TTL,
                    !.hasTransaction = rec.transaction.transaction # "",
                    !.hasMessage = rec.transaction.message # "",
                    !.finalizedSignature = rec.transaction.txSignature,
                    !.signedMessage = rec.transaction.signedMessage]
\* Variant: the response carries the attached transaction as Resolve does.
StatusView_withTransaction(rec, t) ==
    [Success EXCEPT !.status = StatusOf(rec),
                    !.expiresAt = (IF rec.timestamp # 0 THEN rec.timestamp ELSE t) + CODE_TTL,
                    !.hasTransaction = rec.transaction.transaction # "",
                    !.hasMessage = rec.transaction.message # "",
                    !.finalizedSignature = rec.transaction.txSignature,
                    !.signedMessage = rec.transaction.signedMessage,
                    !.transaction = rec.transaction]
StatusView(rec, t) ==
    [Success EXCEPT !.status = StatusOf(rec),
                    !.expiresAt = (IF rec.timestamp # 0 THEN rec.timestamp ELSE t) + CODE_TTL,
                    !.hasTransaction = rec.transaction.transaction # "",
                    !.hasMessage = rec.transaction.message # "",
                    !.finalizedSignature = rec.transaction.txSignature,
                    !.signedMessage = rec.transaction.signedMessage]

StatusRespond(r) ==
    /\ req[r].op = "status" /\ req[r].pc = "s_got"
    /\ LET q == req[r]
       IN  IF ~q.found THEN Respond(r, StatusError("Code not found or expired", 404))
           ELSE IF ~DecryptOk(q.got, q.code)
           THEN Respond(r, StatusError("Invalid code provided", 400))
           ELSE Respond(r, StatusView(decryptField(q.got, q.code), now))
    /\ UNCHANGED <<now, store, sequential, field, thrown>>

\* ------------------------------------------------------------------ Attach
\* await redis.get
AttachGet(r, code, chain, intent, payload, meta, up) ==
    /\ CanStart(r)
    /\ LET q == [IdleReq EXCEPT !.op = "attach", !.code = code, !.chain = chain,
                                !.intent = intent, !.payload = payload, !.meta = meta]
       IN  req' = [req EXCEPT ![r] =
              IF ~up THEN Answered([q EXCEPT !.fault = "get"], Error("UNKNOWN_ERROR", 500))
              ELSE [Got(q, StoreGet(code), now) EXCEPT !.pc = "a_got"]]
    /\ UNCHANGED <<now, store, sequential, field, thrown>>

\* Variant: the deadline itself is not yet expired.
AttachExpired_late(t, expiresAt) == t > expiresAt
AttachExpired(t, expiresAt) == Max(0, expiresAt - t) <= 0
\* Variant: only an attached transaction counts, an attached message does not.
AlreadyAttached_txOnly(rec) == rec.transaction.transaction # ""
AlreadyAttached(rec) == rec.transaction.present

\* protocol.attachTransaction / protocol.attachMessage
attachTransaction(rec, transaction) ==
    [rec EXCEPT !.status = "resolved",
                !.transaction = [NoTx EXCEPT !.present = TRUE, !.transaction = transaction]]
attachMessage(rec, message) ==
    [rec EXCEPT !.status = "resolved",
                !.transaction = [NoTx EXCEPT !.present = TRUE, !.message = message]]

\* Variant: the remaining lifetime is rounded down.
AttachEx_floor(timestamp, t) == Floor(timestamp + CODE_TTL - t, MsPerSec)
\* The store TTL of the attach write.
AttachEx(timestamp, t) == Ceil(timestamp + CODE_TTL - t, MsPerSec)

\* The handler's answer to what the get returned, up to its next await.
AttachDecision(q, t, libOk, iv) ==
    LET dec == decryptField(q.got, q.code)
        timestamp == IF dec.timestamp # 0 THEN dec.timestamp ELSE t
        expiresAt == timestamp + CODE_TTL
        base == [dec EXCEPT !.timestamp = timestamp, !.status = "pending",
                            !.metadata = Merge(dec.metadata, q.meta)]
        q1 == [q EXCEPT !.got = NoBlob, !.expiresAt = expiresAt]
    IN  IF ~q.found THEN Answered(q, Error("CODE_NOT_FOUND", 404))
        ELSE IF ~DecryptOk(q.got, q.code) THEN Answered(q, Error("INVALID_PAYLOAD", 400))
        ELSE IF AttachExpired(t, expiresAt) THEN Answered(q, Error("CODE_EXPIRED", 410))
        ELSE IF AlreadyAttached(dec) THEN Answered(q, Error("TX_ALREADY_ATTACHED", 409))
        ELSE IF ~isChainSupported(q.chain) THEN Answered(q, Error("UNSUPPORTED_CHAIN", 400))
        ELSE IF ~libOk
        THEN Answered([q EXCEPT !.fault = "library"], Error("INVALID_PAYLOAD", 400))
        ELSE IF q.intent = "transaction"
        THEN [q1 EXCEPT !.pc = "a_signing", !.rec = attachTransaction(base, q.payload)]
        ELSE [q1 EXCEPT !.pc = "a_setting", !.rec = attachMessage(base, q.payload),
                        !.setBlob = encryptField(attachMessage(base, q.payload), q.code, iv),
                        !.setEx = AttachEx(timestamp, t), !.setNow = t]

\* From the get's answer to the next await: the checks, then either the
\* adapter's signing call (transaction) or the store set (sign-only).
AttachCheck(r, libOk, iv) ==
    /\ req[r].op = "attach" /\ req[r].pc = "a_got"
    /\ req' = [req EXCEPT ![r] = AttachDecision(req[r], now, libOk, iv)]
    /\ UNCHANGED <<now, store, sequential, field, thrown>>

\* await adapter.signWithProtocolKey returns or throws; then sealing and the TTL.
AttachSigned(r, ok, iv) ==
    /\ req[r].op = "attach" /\ req[r].pc = "a_signing"
    /\ LET q == req[r]
       IN  IF ~ok THEN req' = [req EXCEPT ![r] = Answered([q EXCEPT !.fault = "adapter"],
                                                          Error("INVALID_PAYLOAD", 400))]
           ELSE req' = [req EXCEPT ![r].pc = "a_setting",
                           ![r].setBlob = encryptField(q.rec, q.code, iv),
                           ![r].setEx = AttachEx(q.rec.timestamp, now),
                           ![r].setNow = now]
    /\ UNCHANGED <<now, store, sequential, field, thrown>>

\* await redis.set, then the response.
AttachSet(r, up) ==
    /\ req[r].op = "attach" /\ req[r].pc = "a_setting"
    /\ LET q == req[r]
       IN  IF ~up \/ ~ValidEx(q.setEx)
           THEN /\ req' = [req EXCEPT ![r] = Answered([q EXCEPT !.fault = "set"],
                                                      Error("INVALID_PAYLOAD", 400))]
                /\ UNCHANGED store
           ELSE /\ StoreSet(getKey(sha256(q.code)), q.setBlob, q.setEx)
                /\ RespondWritten(r, [Success EXCEPT !.status = "resolved",
                                                     !.expiresAt = q.expiresAt])
    /\ UNCHANGED <<now, sequential, field, thrown>>

\* ---------------------------------------------------------------- Finalize
\* The request schema: signature and signedMessage are both optional.
FinalizeInputs == {<<s, "">> : s \in Signatures} \cup {<<"", m>> : m \in SignedMessages}
                      \cup {<<"", "">>}

\* await redis.get
FinalizeGet(r, code, sig, smsg, up) ==
    /\ CanStart(r)
    /\ LET q == [IdleReq EXCEPT !.op = "finalize", !.code = code, !.sig = sig, !.smsg = smsg]
       IN  req' = [req EXCEPT ![r] =
              IF ~up THEN Answered([q EXCEPT !.fault = "get"], Error("UNKNOWN_ERROR", 500))
              ELSE [Got(q, StoreGet(code), now) EXCEPT !.pc = "f_got"]]
    /\ UNCHANGED <<now, store, sequential, field, thrown>>

FinalizeExpired(t, expiresAt) == t > expiresAt
\* Variant: the attachment is not required.
TxMissing_never(rec) == FALSE
TxMissing(rec) ==
    \/ ~rec.transaction.present
    \/ (rec.transaction.transaction = "" /\ rec.transaction.message = "")
\* Variant: a stored signature does not stop a second finalization.
AlreadyFinalized_never(rec) == FALSE
AlreadyFinalized(rec) == rec.transaction.txSignature # ""

\* Step 8 of the handler: the proof is stamped and the status set.
Stamp(rec, sig, smsg) ==
    [rec EXCEPT !.status = "finalized",
                !.transaction.txSignature = IF sig # "" THEN sig ELSE @,
                !.transaction.signedMessage = IF sig = "" /\ smsg # "" THEN smsg ELSE @]

\* Variant: the lifetime is passed on in milliseconds.
FinalizeEx_ms == CODE_TTL
\* The store TTL of the finalize write.
FinalizeEx == CODE_TTL \div MsPerSec

\* The handler's answer to what the get returned, up to its next await.
FinalizeDecision(q, t, msgOk, iv) ==
    LET dec == decryptField(q.got, q.code)
        timestamp == IF dec.timestamp # 0 THEN dec.timestamp ELSE t
        expiresAt == timestamp + CODE_TTL
        q1 == [q EXCEPT !.got = NoBlob, !.expiresAt = expiresAt, !.rec = dec]
    IN  IF ~q.found THEN Answered(q, Error("CODE_NOT_FOUND", 404))
        ELSE IF ~DecryptOk(q.got, q.code) THEN Answered(q, Error("INVALID_PAYLOAD", 400))
        ELSE IF FinalizeExpired(t, expiresAt) THEN Answered(q, Error("CODE_EXPIRED", 410))
        ELSE IF TxMissing(dec) THEN Answered(q, Error("TX_MISSING", 400))
        ELSE IF AlreadyFinalized(dec) THEN Answered(q, Error("TX_ALREADY_ATTACHED", 409))
        ELSE IF dec.chain = "" THEN Answered(q, Error("INVALID_PAYLOAD", 400))
        ELSE IF dec.chain # "solana" THEN Answered(q, Error("UNSUPPORTED_CHAIN", 400))
        ELSE IF q.sig # "" THEN [q1 EXCEPT !.pc = "f_verifying"]
        ELSE IF q.smsg # ""
        THEN IF ~msgOk THEN Answered([q EXCEPT !.fault = "message"],
                                     Error("SIGNATURE_INVALID", 400))
             ELSE [q1 EXCEPT !.pc = "f_setting", !.rec = Stamp(dec, q.sig, q.smsg),
                             !.setBlob = encryptField(Stamp(dec, q.sig, q.smsg), q.code, iv),
                             !.setEx = FinalizeEx]
        ELSE Answered(q, Error("INVALID_PAYLOAD", 400))

\* From the get's answer to the next await: the checks, then either the ledger
\* query (signature) or, for a signed message, verification and the store set.
FinalizeCheck(r, msgOk, iv) ==
    /\ req[r].op = "finalize" /\ req[r].pc = "f_got"
    /\ req' = [req EXCEPT ![r] = FinalizeDecision(req[r], now, msgOk, iv)]
    /\ UNCHANGED <<now, store, sequential, field, thrown>>

\* await solanaConnection.getTransaction answers; the adapter checks the
\* transaction against the record.  Every failure is SIGNATURE_INVALID.
LedgerVerdicts == {"ok", "not_found", "invalid", "failed", "throws"}
\* Variant: a transaction that failed on chain is taken as proof.
FinalizeVerified_acceptsFailed(r, verdict, iv) ==
    /\ req[r].op = "finalize" /\ req[r].pc = "f_verifying"
    /\ LET q == req[r]
       IN  IF verdict \notin {"ok", "failed"}
           THEN req' = [req EXCEPT ![r] = Answered([q EXCEPT !.fault = verdict],
                                                  Error("SIGNATURE_INVALID", 400))]
           ELSE req' = [req EXCEPT ![r].pc = "f_setting",
                           ![r].fault = IF verdict = "ok" THEN "" ELSE verdict,
                           ![r].rec = Stamp(q.rec, q.sig, q.smsg),
                           ![r].setBlob = encryptField(Stamp(q.rec, q.sig, q.smsg),
                                                       q.code, iv),
                           ![r].setEx = FinalizeEx]
    /\ UNCHANGED <<now, store, sequential, field, thrown>>
\* Variant: when the ledger query throws, the handler starts its checks again.
FinalizeVerified_retries(r, verdict, iv) ==
    /\ req[r].op = "finalize" /\ req[r].pc = "f_verifying"
    /\ LET q == req[r]
       IN  IF verdict = "throws"
           THEN req' = [req EXCEPT ![r].pc = "f_got"]
           ELSE IF verdict # "ok"
           THEN req' = [req EXCEPT ![r] = Answered([q EXCEPT !.fault = verdict],
                                                  Error("SIGNATURE_INVALID", 400))]
           ELSE req' = [req EXCEPT ![r].pc = "f_setting",
                           ![r].rec = Stamp(q.rec, q.sig, q.smsg),
                           ![r].setBlob = encryptField(Stamp(q.rec, q.sig, q.smsg),
                                                       q.code, iv),
                           ![r].setEx = FinalizeEx]
    /\ UNCHANGED <<now, store, sequential, field, thrown>>
FinalizeVerified(r, verdict, iv) ==
    /\ req[r].op = "finalize" /\ req[r].pc = "f_verifying"
    /\ LET q == req[r]
       IN  IF verdict # "ok"
           THEN req' = [req EXCEPT ![r] = Answered([q EXCEPT !.fault = verdict],
                                                  Error("SIGNATURE_INVALID", 400))]
           ELSE req' = [req EXCEPT ![r].pc = "f_setting",
                           ![r].rec = Stamp(q.rec, q.sig, q.smsg),
                           ![r].setBlob = encryptField(Stamp(q.rec, q.sig, q.smsg),
                                                       q.code, iv),
                           ![r].setEx = FinalizeEx]
    /\ UNCHANGED <<now, store, sequential, field, thrown>>

\* await redis.set, then the response.
FinalizeSet(r, up) ==
    /\ req[r].op = "finalize" /\ req[r].pc = "f_setting"
    /\ LET q == req[r]
       IN  IF ~up
           THEN /\ req' = [req EXCEPT ![r] = Answered([q EXCEPT !.fault = "set"],
                                                      Error("UNKNOWN_ERROR", 500))]
                /\ UNCHANGED store
           ELSE /\ StoreSet(getKey(sha256(q.code)), q.setBlob, q.setEx)
                /\ RespondWritten(r, [Success EXCEPT !.status = "finalized",
                                                     !.expiresAt = q.expiresAt])
    /\ UNCHANGED <<now, sequential, field, thrown>>

\* ------------------------------------------------------- sealing a string
Seal(value, code, iv) ==
    /\ field.phase = "empty"
    /\ field' = [NoField EXCEPT !.phase = "sealed", !.value = value, !.code = code,
                                !.iv = iv, !.sealed = encryptFieldString(value, code, iv),
                                !.given = encryptFieldString(value, code, iv)]
    /\ UNCHANGED <<now, store, req, sequential, thrown>>

\* A second call of encryptField on the same value and code.
SealAgain(iv) ==
    /\ field.phase = "sealed" /\ field.iv2 = 0 /\ field.damage = "none"
    /\ field' = [field EXCEPT !.iv2 = iv,
                              !.again = encryptFieldString(field.value, field.code, iv)]
    /\ UNCHANGED <<now, store, req, sequential, thrown>>

\* The string handed to decryptField is not the string encryptField returned.
Corrupt(kind) ==
    /\ field.phase = "sealed" /\ field.iv2 = 0 /\ field.damage = "none"
    /\ field' = [field EXCEPT !.damage = kind, !.given = Damage(kind, field.sealed)]
    /\ UNCHANGED <<now, store, req, sequential, thrown>>

Open(code, other) ==
    /\ field.phase = "sealed"
    /\ field' = [field EXCEPT !.phase = "opened", !.openCode = code,
                              !.out = decryptFieldString(field.given, code, other)]
    /\ UNCHANGED <<now, store, req, sequential, thrown>>

Discard ==
    /\ field.phase = "opened"
    /\ field' = NoField
    /\ UNCHANGED <<now, store, req, sequential, thrown>>

\* ------------------------------------------------------------ specification
AttachInputs == {<<"transaction", b>> : b \in TxPayloads}
                    \cup {<<"sign-only", m>> : m \in Messages}
\* AttachRequestSchema: transaction and message are optional; the handler
\* passes transaction || '' and message || ''.
AttachInputsAll == AttachInputs \cup {<<"transaction", "">>, <<"sign-only", "">>}
Ops == {"register", "resolve", "status", "attach", "finalize"}

Next ==
    \/ \E t \in Times : Tick(t)
    \/ \E r \in Reqs, op \in Ops : BadRequest(r, op)
    \/ \E r \in Reqs : Recycle(r)
    \/ \E r \in Reqs, c \in OneCode, p \in Pubkeys, ch \in Chains, v \in BOOLEAN, iv \in IVs :
           \E ts \in RegTimes : ts <= now /\ RegisterCall(r, c, p, ch, ts, NoMeta, v, iv)
    \/ \E r \in Reqs, up \in BOOLEAN : RegisterSet(r, up)
    \/ \E r \in Reqs, c \in OneCode, up \in BOOLEAN : ResolveGet(r, c, up)
    \/ \E r \in Reqs : ResolveRespond(r)
    \/ \E r \in Reqs, c \in OneCode, up \in BOOLEAN : StatusGet(r, c, up)
    \/ \E r \in Reqs : StatusRespond(r)
    \/ \E r \in Reqs, c \in OneCode, ch \in Chains, in \in AttachInputsAll, up \in BOOLEAN :
           AttachGet(r, c, ch, in[1], in[2], NoMeta, up)
    \/ \E r \in Reqs, libOk \in BOOLEAN, iv \in IVs : AttachCheck(r, libOk, iv)
    \/ \E r \in Reqs, ok \in BOOLEAN, iv \in IVs : AttachSigned(r, ok, iv)
    \/ \E r \in Reqs, up \in BOOLEAN : AttachSet(r, up)
    \/ \E r \in Reqs, c \in OneCode, in \in FinalizeInputs, up \in BOOLEAN :
           FinalizeGet(r, c, in[1], in[2], up)
    \/ \E r \in Reqs, msgOk \in BOOLEAN, iv \in IVs : FinalizeCheck(r, msgOk, iv)
    \/ \E r \in Reqs, v \in LedgerVerdicts, iv \in IVs : FinalizeVerified(r, v, iv)
    \/ \E r \in Reqs, up \in BOOLEAN : FinalizeSet(r, up)

\* Concurrent requests on one registration of a code: the operations that write
\* the store, with the store and the collaborators answering.
RaceTimes == {t \in Times : t <= T0 + 1}
FirstRegistration(code) == /\ ~StoreGet(code).present
                           /\ \A q \in Reqs : req[q].op # "register"
NextRace ==
    \/ \E t \in RaceTimes : Tick(t)
    \/ \E r \in Reqs : Recycle(r)
    \/ \E r \in Reqs, c \in OneCode, p \in Pubkeys, iv \in IVs :
           \E ts \in RegTimes :
               /\ ts <= now
               /\ FirstRegistration(c)
               /\ RegisterCall(r, c, p, "solana", ts, NoMeta, TRUE, iv)
    \/ \E r \in Reqs : RegisterSet(r, TRUE)
    \/ \E r \in Reqs, c \in OneCode, in \in AttachInputs :
           AttachGet(r, c, "solana", in[1], in[2], NoMeta, TRUE)
    \/ \E r \in Reqs, iv \in IVs : AttachCheck(r, TRUE, iv)
    \/ \E r \in Reqs, iv \in IVs : AttachSigned(r, TRUE, iv)
    \/ \E r \in Reqs : AttachSet(r, TRUE)
    \/ \E r \in Reqs, c \in OneCode, in \in FinalizeInputs :
           FinalizeGet(r, c, in[1], in[2], TRUE)
    \/ \E r \in Reqs, iv \in IVs : FinalizeCheck(r, TRUE, iv)
    \/ \E r \in Reqs, v \in LedgerVerdicts, iv \in IVs : FinalizeVerified(r, v, iv)
    \/ \E r \in Reqs : FinalizeSet(r, TRUE)

\* Concurrent requests on a code that may be registered again while they run.
NextRereg ==
    \/ \E t \in RaceTimes : Tick(t)
    \/ \E r \in Reqs : Recycle(r)
    \/ \E r \in Reqs, c \in OneCode, p \in Pubkeys, iv \in IVs :
           \E ts \in RegTimes : ts <= now /\ RegisterCall(r, c, p, "solana", ts, NoMeta, TRUE, iv)
    \/ \E r \in Reqs : RegisterSet(r, TRUE)
    \/ \E r \in Reqs, c \in OneCode, in \in AttachInputs :
           AttachGet(r, c, "solana", in[1], in[2], NoMeta, TRUE)
    \/ \E r \in Reqs, iv \in IVs : AttachCheck(r, TRUE, iv)
    \/ \E r \in Reqs, iv \in IVs : AttachSigned(r, TRUE, iv)
    \/ \E r \in Reqs : AttachSet(r, TRUE)
    \/ \E r \in Reqs, c \in OneCode, in \in FinalizeInputs :
           FinalizeGet(r, c, in[1], in[2], TRUE)
    \/ \E r \in Reqs, iv \in IVs : FinalizeCheck(r, TRUE, iv)
    \/ \E r \in Reqs, iv \in IVs : FinalizeVerified(r, "ok", iv)
    \/ \E r \in Reqs : FinalizeSet(r, TRUE)

\* Requests on two codes and with metadata, one after another, the store and
\* the collaborators answering, the clock standing still.
NextData ==
    \/ \E r \in Reqs : Recycle(r)
    \/ \E r \in Reqs, c \in Codes, p \in Pubkeys, m \in Metas, iv \in IVs :
           RegisterCall(r, c, p, "solana", T0, m, TRUE, iv)
    \/ \E r \in Reqs : RegisterSet(r, TRUE)
    \/ \E r \in Reqs, c \in Codes : ResolveGet(r, c, TRUE)
    \/ \E r \in Reqs : ResolveRespond(r)
    \/ \E r \in Reqs, c \in Codes : StatusGet(r, c, TRUE)
    \/ \E r \in Reqs : StatusRespond(r)
    \/ \E r \in Reqs, c \in Codes, in \in AttachInputs, m \in Metas :
           AttachGet(r, c, "solana", in[1], in[2], m, TRUE)
    \/ \E r \in Reqs, iv \in IVs : AttachCheck(r, TRUE, iv)
    \/ \E r \in Reqs, iv \in IVs : AttachSigned(r, TRUE, iv)
    \/ \E r \in Reqs : AttachSet(r, TRUE)
    \/ \E r \in Reqs, c \in Codes, in \in FinalizeInputs :
           FinalizeGet(r, c, in[1], in[2], TRUE)
    \/ \E r \in Reqs, iv \in IVs : FinalizeCheck(r, TRUE, iv)
    \/ \E r \in Reqs, iv \in IVs : FinalizeVerified(r, "ok", iv)
    \/ \E r \in Reqs : FinalizeSet(r, TRUE)

\* A string is sealed under a code and opened under a code.
NextField ==
    \/ \E v \in Strings, c \in Codes, iv \in IVs : Seal(v, c, iv)
    \/ \E iv \in FieldIVs : SealAgain(iv)
    \/ \E kind \in Damages : Corrupt(kind)
    \/ \E c \in Codes, other \in WrongKeyBlocks : Open(c, other)
    \/ Discard

\* What a handler does once the call it awaits has returned or thrown.
HandlerStep(r) ==
    \/ \E up \in BOOLEAN : RegisterSet(r, up)
    \/ ResolveRespond(r)
    \/ StatusRespond(r)
    \/ \E libOk \in BOOLEAN, iv \in IVs : AttachCheck(r, libOk, iv)
    \/ \E ok \in BOOLEAN, iv \in IVs : AttachSigned(r, ok, iv)
    \/ \E up \in BOOLEAN : AttachSet(r, up)
    \/ \E msgOk \in BOOLEAN, iv \in IVs : FinalizeCheck(r, msgOk, iv)
    \/ \E v \in LedgerVerdicts, iv \in IVs : FinalizeVerified(r, v, iv)
    \/ \E up \in BOOLEAN : FinalizeSet(r, up)

\* Requests run one after another, every input and every fault.
SpecSeq == InitSeq /\ [][Next]_vars
\* Finalize on a record that is in the store already, whatever ActionCode
\* .fromEncoded makes of it: any chain or none, nothing attached, a transaction
\* attached, or finalized.
StoredRecords ==
    UNION {{NewRecord("c1", "P1", ch, T0),
            attachTransaction(NewRecord("c1", "P1", ch, T0), "B1"),
            Stamp(attachTransaction(NewRecord("c1", "P1", ch, T0), "B1"), "S1", "")} :
           ch \in {"", "other", "solana"}}
InitStored ==
    /\ now = T0 + 1
    /\ \E rec \in StoredRecords :
           store = [k \in StoreKeys |->
                      IF k = getKey(sha256("c1"))
                      THEN [present |-> TRUE, blob |-> encryptField(rec, "c1", 1),
                            ex |-> Ceil(CODE_TTL, MsPerSec), setAt |-> T0 + 1]
                      ELSE NoEntry]
    /\ req = [r \in Reqs |-> IdleReq]
    /\ sequential = TRUE
    /\ field = NoField
    /\ thrown = NoError
NextStored ==
    \/ \E t \in Times : Tick(t)
    \/ \E r \in Reqs : Recycle(r)
    \/ \E r \in Reqs, c \in OneCode, in \in FinalizeInputs, up \in BOOLEAN :
           FinalizeGet(r, c, in[1], in[2], up)
    \/ \E r \in Reqs, msgOk \in BOOLEAN, iv \in IVs : FinalizeCheck(r, msgOk, iv)
    \/ \E r \in Reqs, v \in LedgerVerdicts, iv \in IVs : FinalizeVerified(r, v, iv)
    \/ \E r \in Reqs, up \in BOOLEAN : FinalizeSet(r, up)
SpecStored == InitStored /\ [][NextStored]_vars

\* ... and every call a handler awaits returns or throws in the end.
SpecLive == InitSeq /\ [][Next]_vars /\ \A r \in Reqs : WF_vars(HandlerStep(r))
\* Requests overlap on the writing operations.
SpecRace == Init /\ [][NextRace]_vars
\* Requests overlap and the code may be registered again.
SpecRereg == Init /\ [][NextRereg]_vars
\* Two codes and metadata, requests one after another.
SpecData == InitSeq /\ [][NextData]_vars
\* The field codec on its own.
SpecField == Init /\ [][NextField]_vars

\* ------------------------------------------------------------------- claims
\* What the store holds for a code, and what a handler's get returned.
Stored(code) == StoreGet(code).blob.pt
Holds(r) == req[r].found /\ DecryptOk(req[r].got, req[r].code)
ReadRec(r) == decryptField(req[r].got, req[r].code)
\* The step in which handler r, at position pc, runs on to its next await or answer.
Steps(r, op, pc) == req[r].op = op /\ req[r].pc = pc /\ req'[r].pc # pc
Answers(r, kind, http) ==
    /\ req'[r].pc = "done"
    /\ req'[r].resp.kind = kind /\ req'[r].resp.http = http
    /\ ~req'[r].wrote
Done(r, op, kind) == req[r].op = op /\ req[r].pc = "done" /\ req[r].resp.kind = kind
PayloadOf(rec) == <<rec.transaction.transaction, rec.transaction.message>>
ProofOf(rec) == <<rec.transaction.txSignature, rec.transaction.signedMessage>>
RequestPayload(q) == IF q.intent = "transaction" THEN <<q.payload, "">> ELSE <<"", q.payload>>

\* C1: of the Attach requests that read the same registered, unexpired code with
\* no payload attached, at most one returns success, and the stored payload is
\* the one of the request that returned success.
C1_SingleUseAttach ==
    \A r1 \in Reqs :
        (Done(r1, "attach", "success") /\ req[r1].saw = "pending") =>
            /\ \A r2 \in Reqs \ {r1} :
                   ~(Done(r2, "attach", "success") /\ req[r2].saw = "pending"
                        /\ req[r2].code = req[r1].code)
            /\ PayloadOf(Stored(req[r1].code)) = RequestPayload(req[r1])

\* C2: of two Finalize requests that read the same attached, unexpired, not yet
\* finalized code, each with a proof the adapter accepts, at most one returns
\* success, and the stored txSignature is the proof of that request.
C2_SingleUseFinalize ==
    \A r1 \in Reqs :
        (Done(r1, "finalize", "success") /\ req[r1].saw = "resolved") =>
            /\ \A r2 \in Reqs \ {r1} :
                   ~(Done(r2, "finalize", "success") /\ req[r2].saw = "resolved"
                        /\ req[r2].code = req[r1].code)
            /\ req[r1].sig # "" => Stored(req[r1].code).transaction.txSignature = req[r1].sig

\* C3: once the store holds a record with a finalize proof, every later stored
\* record of that code (one registration, no eviction) carries the same proof
\* and the same attached payload.
C3_FinalizedIsTerminal ==
    [][\A c \in Codes :
          (StoreGet(c).present /\ StatusOf(Stored(c)) = "finalized") =>
              /\ ProofOf(Stored(c))' = ProofOf(Stored(c))
              /\ PayloadOf(Stored(c))' = PayloadOf(Stored(c))]_vars

\* C4 as stated: run one after another, an Attach that finds a record with a
\* transaction or message attached answers TX_ALREADY_ATTACHED (409) and does
\* not write.
C4_AttachedAlwaysConflict ==
    [][\A r \in Reqs :
          (Steps(r, "attach", "a_got") /\ Holds(r) /\ ReadRec(r).transaction.present) =>
              Answers(r, "TX_ALREADY_ATTACHED", 409)]_vars

\* C4 as amended: such an Attach never writes; it answers TX_ALREADY_ATTACHED
\* (409) while now < timestamp + TTL and CODE_EXPIRED (410) from then on.
C4_AttachedRejected ==
    [][\A r \in Reqs :
          (Steps(r, "attach", "a_got") /\ Holds(r) /\ ReadRec(r).transaction.present) =>
              /\ store' = store
              /\ IF now < ReadRec(r).timestamp + CODE_TTL
                 THEN Answers(r, "TX_ALREADY_ATTACHED", 409)
                 ELSE Answers(r, "CODE_EXPIRED", 410)]_vars
C4_Witness ==
    \E r \in Reqs : /\ Done(r, "attach", "TX_ALREADY_ATTACHED") /\ ~req[r].wrote
                    /\ req[r].saw = "resolved"
                    /\ req[r].intent = "transaction"
                    /\ Stored(req[r].code).transaction.message # ""

\* C5 as stated: run one after another, a Finalize that finds a record carrying
\* a txSignature answers TX_ALREADY_ATTACHED (409) and does not write.
C5_FinalizedAlwaysConflict ==
    [][\A r \in Reqs :
          (Steps(r, "finalize", "f_got") /\ Holds(r)
              /\ ReadRec(r).transaction.txSignature # "") =>
              Answers(r, "TX_ALREADY_ATTACHED", 409)]_vars

\* C5 as amended: such a Finalize is always rejected and never writes - with
\* TX_ALREADY_ATTACHED (409) while now < timestamp + TTL, with CODE_EXPIRED (410)
\* once now > timestamp + TTL - and no step of a Finalize request changes a
\* stored txSignature.
C5_FinalizedRejected ==
    [][/\ \A r \in Reqs :
            (Steps(r, "finalize", "f_got") /\ Holds(r)
                /\ ReadRec(r).transaction.txSignature # "") =>
                /\ \/ Answers(r, "TX_ALREADY_ATTACHED", 409)
                   \/ Answers(r, "CODE_EXPIRED", 410)
                /\ now < ReadRec(r).timestamp + CODE_TTL
                       => Answers(r, "TX_ALREADY_ATTACHED", 409)
                /\ now > ReadRec(r).timestamp + CODE_TTL => Answers(r, "CODE_EXPIRED", 410)
       /\ \A r \in Reqs, c \in Codes :
            (req[r].op = "finalize" /\ req'[r] # req[r] /\ req[r].code = c
                /\ Stored(c).transaction.txSignature # "") =>
                Stored(c)' = Stored(c)]_vars
C5_Witness ==
    \E r \in Reqs : /\ Done(r, "finalize", "TX_ALREADY_ATTACHED") /\ ~req[r].wrote
                    /\ req[r].sig # ""
                    /\ Stored(req[r].code).transaction.txSignature
                           \in Signatures \ {req[r].sig}

C7_FinalizeNeedsAttach ==
    [][/\ \A r \in Reqs :
            (Steps(r, "finalize", "f_got") /\ Holds(r)
                /\ now < ReadRec(r).timestamp + CODE_TTL
                /\ StatusOf(ReadRec(r)) = "pending") =>
                Answers(r, "TX_MISSING", 400) /\ store' = store
       /\ \A c \in Codes :
            (StoreGet(c).present /\ StatusOf(Stored(c)) = "pending") =>
                StatusOf(Stored(c))' # "finalized"]_vars
C7_Witness ==
    \E r \in Reqs : /\ Done(r, "finalize", "TX_MISSING") /\ ~req[r].wrote
                    /\ req[r].sig # ""
                    /\ StatusOf(Stored(req[r].code)) = "pending"

\* C8: an Attach that finds a record with now >= timestamp + TTL answers
\* CODE_EXPIRED (410) and does not write, whatever the request carries.
C8_AttachExpired ==
    [][\A r \in Reqs :
          (Steps(r, "attach", "a_got") /\ Holds(r)
              /\ now >= ReadRec(r).timestamp + CODE_TTL) =>
              Answers(r, "CODE_EXPIRED", 410) /\ store' = store]_vars
C8_Witness ==
    \E r \in Reqs : /\ Done(r, "attach", "CODE_EXPIRED") /\ ~req[r].wrote
                    /\ req[r].saw = "pending"
                    /\ now = Stored(req[r].code).timestamp + CODE_TTL

\* C9: a Finalize that finds a record at now = timestamp + TTL answers
\* CODE_EXPIRED (410) and does not write.
C9_FinalizeExpiredAtDeadline ==
    [][\A r \in Reqs :
          (Steps(r, "finalize", "f_got") /\ Holds(r)
              /\ now = ReadRec(r).timestamp + CODE_TTL) =>
              Answers(r, "CODE_EXPIRED", 410)]_vars

\* C10: Resolve answers expiresAt = timestamp + TTL, remainingInSeconds =
\* floor(max(0, expiresAt - now) / 1000) and status expired exactly when that
\* maximum is 0: expired with 0 seconds at now = timestamp + TTL, not expired
\* and within one second of the lifetime less than a second after timestamp.
C10_ResolveTime ==
    [][\A r \in Reqs :
          (Steps(r, "resolve", "v_got") /\ Holds(r)) =>
              LET ts == ReadRec(r).timestamp
                  left == IF ts + CODE_TTL > now THEN ts + CODE_TTL - now ELSE 0
                  out == req'[r].resp
              IN  /\ req'[r].pc = "done" /\ out.kind = "success" /\ out.http = 200
                  /\ out.expiresAt = ts + CODE_TTL
                  /\ out.remainingInSeconds * MsPerSec <= left
                  /\ left < (out.remainingInSeconds + 1) * MsPerSec
                  /\ (out.status = "expired") <=> (left = 0)
                  /\ now = ts + CODE_TTL =>
                         out.status = "expired" /\ out.remainingInSeconds = 0
                  /\ (ts <= now /\ now < ts + MsPerSec) =>
                         /\ out.status # "expired"
                         /\ out.remainingInSeconds * MsPerSec <= CODE_TTL
                         /\ out.remainingInSeconds * MsPerSec >= CODE_TTL - MsPerSec
                  /\ store' = store]_vars
C10_Witness ==
    \E r \in Reqs : /\ Done(r, "resolve", "success")
                    /\ req[r].resp.status = "expired"
                    /\ req[r].resp.remainingInSeconds = 0
                    /\ req[r].resp.expiresAt = now

\* C11: every store write of Attach or Finalize keeps the record's timestamp,
\* the record Register stores carries the timestamp of the request, and every
\* successful response of Register, Resolve, Attach, Finalize and Status
\* carries expiresAt = stored timestamp + TTL.
C11_DeadlineNeverMoves ==
    [][\A r \in Reqs, c \in Codes :
          req[r].code = c =>
              /\ (req[r].op \in {"attach", "finalize"} /\ StoreGet(c)' # StoreGet(c)) =>
                     Stored(c)'.timestamp = Stored(c).timestamp
              /\ (Steps(r, "register", "r_setting") /\ req'[r].wrote) =>
                     Stored(c)'.timestamp + CODE_TTL = req[r].expiresAt
              /\ (req[r].pc # "done" /\ req'[r].pc = "done"
                      /\ req'[r].resp.kind = "success") =>
                     req'[r].resp.expiresAt = Stored(c)'.timestamp + CODE_TTL]_vars
C11_Witness ==
    \E r \in Reqs, c \in Codes :
        /\ req[r].code = c /\ Done(r, "finalize", "success") /\ req[r].wrote
        /\ StoreGet(c).setAt > Stored(c).timestamp
        /\ Stored(c).timestamp = T0 + 1
        /\ req[r].resp.expiresAt = T0 + 1 + CODE_TTL

\* The store entry of a code, and the step in which handler r's set takes effect.
Entry(code) == StoreGet(code)
Writes(r, op, pc) == Steps(r, op, pc) /\ req'[r].wrote
\* n is x / 1000 rounded up.
RoundsUp(n, x) == n * MsPerSec >= x /\ (n - 1) * MsPerSec < x

\* C12 as stated: the TTL of a successful Attach write is
\* ceil((timestamp + codeTTL - now) / 1000) with now the clock when the store
\* takes the write, and the entry is evicted no later than one second after
\* timestamp + codeTTL.
C12_AttachTtlAtWrite ==
    [][\A r \in Reqs, c \in Codes :
          (req[r].code = c /\ Writes(r, "attach", "a_setting")) =>
              /\ RoundsUp(Entry(c)'.ex, req[r].rec.timestamp + CODE_TTL - now)
              /\ EvictAt(Entry(c)') <= req[r].rec.timestamp + CODE_TTL + MsPerSec]_vars

\* C12 as amended: the TTL is ceil((timestamp + codeTTL - now) / 1000) with
\* timestamp the one of the record read and now the clock when the handler
\* computes it, just before it calls the store; the store counts it from the
\* moment it takes the write, so the entry is evicted no later than one second
\* plus that delay after timestamp + codeTTL.
C12_AttachTtlAtCall ==
    [][\A r \in Reqs, c \in Codes :
          (req[r].code = c /\ req[r].op = "attach") =>
              /\ (req[r].pc # "a_setting" /\ req'[r].pc = "a_setting") =>
                     /\ Holds(r) => req'[r].rec.timestamp = ReadRec(r).timestamp
                     /\ req[r].pc = "a_signing" =>
                            req'[r].rec.timestamp = req[r].rec.timestamp
                     /\ req'[r].rec.timestamp = Stored(c).timestamp
                     /\ req'[r].setNow = now
                     /\ RoundsUp(req'[r].setEx, req'[r].rec.timestamp + CODE_TTL - now)
              /\ Writes(r, "attach", "a_setting") =>
                     /\ Entry(c)'.ex = req[r].setEx /\ Entry(c)'.ex >= 1
                     /\ Entry(c)'.setAt = now
                     /\ Stored(c)'.timestamp = req[r].rec.timestamp
                     /\ EvictAt(Entry(c)') < req[r].rec.timestamp + CODE_TTL + MsPerSec
                                                + (now - req[r].setNow)]_vars
C12_Witness ==
    \E r \in Reqs, c \in Codes :
        /\ req[r].code = c /\ Done(r, "attach", "success") /\ req[r].wrote
        /\ req[r].intent = "transaction"
        /\ Entry(c).ex = 1
        /\ EvictAt(Entry(c)) > Stored(c).timestamp + CODE_TTL + MsPerSec

\* C13 as stated: the TTL of a successful Finalize write is the remaining
\* lifetime timestamp + codeTTL - now rounded up to seconds, so the entry is
\* evicted no later than one second after timestamp + codeTTL.
C13_FinalizeTtlAnchored ==
    [][\A r \in Reqs, c \in Codes :
          (req[r].code = c /\ Writes(r, "finalize", "f_setting")) =>
              /\ RoundsUp(Entry(c)'.ex, req[r].rec.timestamp + CODE_TTL - now)
              /\ EvictAt(Entry(c)') <= req[r].rec.timestamp + CODE_TTL + MsPerSec]_vars

\* C13 as amended: the TTL of a successful Finalize write is the whole code
\* lifetime in seconds, codeTTL / 1000, whatever the timestamp: the entry is
\* evicted one lifetime after the store takes the write.
C13_FinalizeTtlWholeLifetime ==
    [][\A r \in Reqs, c \in Codes :
          (req[r].code = c /\ Writes(r, "finalize", "f_setting")) =>
              /\ Entry(c)'.ex * MsPerSec = CODE_TTL
              /\ Entry(c)'.setAt = now
              /\ EvictAt(Entry(c)') = now + CODE_TTL
              /\ Stored(c)'.timestamp = req[r].rec.timestamp]_vars
C13_Witness ==
    \E r \in Reqs, c \in Codes :
        /\ req[r].code = c /\ Done(r, "finalize", "success") /\ req[r].wrote
        /\ now > Stored(c).timestamp
        /\ EvictAt(Entry(c)) > Stored(c).timestamp + CODE_TTL + MsPerSec

\* C14: the expiry Register gives the store, which the store reads in seconds,
\* is codeTTL / 1000.
C14_RegisterTtlSeconds ==
    [][\A r \in Reqs, c \in Codes :
          (req[r].code = c /\ Writes(r, "register", "r_setting")) =>
              Entry(c)'.ex * MsPerSec = CODE_TTL]_vars

\* C15: every store set that Register, Attach or Finalize has issued carries a
\* TTL that is an integer >= 1.
C15_TtlAtLeastOne ==
    \A r \in Reqs :
        req[r].pc \in {"r_setting", "a_setting", "f_setting"} => req[r].setEx >= 1

\* C16: no step of a Resolve or Status request, answered with success or with
\* an error, changes the store: content, TTL and time of setting of every entry.
ReadOnlyOps == {"resolve", "status"}
C16_ReadsDoNotWrite ==
    [][\A r \in Reqs :
          ((req[r].op \in ReadOnlyOps \/ req'[r].op \in ReadOnlyOps)
              /\ req'[r] # req[r]) =>
              store' = store /\ ~req'[r].wrote]_vars
C16_Witness ==
    \E r \in Reqs, c \in Codes :
        /\ req[r].code = c /\ Done(r, "resolve", "success") /\ ~req[r].wrote
        /\ Entry(c).present /\ Entry(c).setAt < now
        /\ StatusOf(Stored(c)) = "finalized"

\* C17 as stated: while remaining time is above zero, Resolve's status is
\* pending with nothing attached, active with a payload and no proof, finalized
\* once a proof is stamped.
C17_ResolveStatusLifecycle ==
    [][\A r \in Reqs :
          (Steps(r, "resolve", "v_got") /\ Holds(r)
              /\ now < ReadRec(r).timestamp + CODE_TTL) =>
              LET tx == ReadRec(r).transaction
              IN  req'[r].resp.status =
                      IF tx.txSignature # "" \/ tx.signedMessage # "" THEN "finalized"
                      ELSE IF tx.transaction # "" \/ tx.message # "" THEN "active"
                      ELSE "pending"]_vars

\* C17 as amended: while remaining time is above zero, Resolve's status is
\* active whatever is attached or stamped; the lifecycle shows in the returned
\* transaction, which is the stored one, and a Finalize with signature S stores
\* txSignature = S.
C17_ResolveStatusActive ==
    [][\A r \in Reqs, c \in Codes :
          req[r].code = c =>
              /\ (Steps(r, "resolve", "v_got") /\ Holds(r)
                      /\ now < ReadRec(r).timestamp + CODE_TTL) =>
                     /\ req'[r].resp.kind = "success"
                     /\ req'[r].resp.status = "active"
                     /\ req'[r].resp.transaction = Stored(c).transaction
              /\ (Writes(r, "finalize", "f_setting") /\ req[r].sig # "") =>
                     /\ Stored(c)'.transaction.txSignature = req[r].sig
                     /\ Stored(c)'.transaction.transaction = Stored(c).transaction.transaction]_vars
C17_Witness ==
    \E r \in Reqs :
        /\ Done(r, "resolve", "success")
        /\ req[r].resp.status = "active"
        /\ req[r].resp.transaction.txSignature = "S1"
        /\ req[r].resp.transaction.transaction = "B1"

\* C18: Status answers 200 with finalized if txSignature or signedMessage is
\* present, else resolved if a transaction or message is present, else pending,
\* at every clock value, also at now >= timestamp + TTL, and with
\* expiresAt = timestamp + TTL.
C18_StatusFromContent ==
    [][\A r \in Reqs :
          (Steps(r, "status", "s_got") /\ Holds(r)) =>
              LET tx == ReadRec(r).transaction
              IN  /\ req'[r].pc = "done"
                  /\ req'[r].resp.kind = "success" /\ req'[r].resp.http = 200
                  /\ req'[r].resp.status =
                         IF tx.txSignature # "" \/ tx.signedMessage # "" THEN "finalized"
                         ELSE IF tx.transaction # "" \/ tx.message # "" THEN "resolved"
                         ELSE "pending"
                  /\ req'[r].resp.expiresAt = ReadRec(r).timestamp + CODE_TTL]_vars
C18_Witness ==
    \E r \in Reqs :
        /\ Done(r, "status", "success")
        /\ req[r].resp.status = "resolved"
        /\ now >= req[r].resp.expiresAt

\* C19: the stored record of a code moves only forward and one step at a time
\* through pending, resolved, finalized: it is created pending, by Register
\* only; it leaves pending only through a successful Attach and resolved only
\* through a successful Finalize; an attached payload and a proof stay.
Rank(rec) == IF StatusOf(rec) = "pending" THEN 1
             ELSE IF StatusOf(rec) = "resolved" THEN 2 ELSE 3
C19_ForwardOneStep ==
    [][\A c \in Codes :
          /\ (~Entry(c).present /\ Entry(c)'.present) =>
                 /\ Rank(Stored(c)') = 1
                 /\ \E r \in Reqs : Writes(r, "register", "r_setting")
          /\ Entry(c).present =>
                 /\ Rank(Stored(c)') \in {Rank(Stored(c)), Rank(Stored(c)) + 1} \cap 1..3
                 /\ (Rank(Stored(c)) = 1 /\ Rank(Stored(c)') = 2) =>
                        \E r \in Reqs : Writes(r, "attach", "a_setting")
                 /\ (Rank(Stored(c)) = 2 /\ Rank(Stored(c)') = 3) =>
                        \E r \in Reqs : Writes(r, "finalize", "f_setting")
                 /\ Rank(Stored(c)) >= 2 => PayloadOf(Stored(c)') = PayloadOf(Stored(c))
                 /\ Stored(c).transaction.txSignature # "" =>
                        Stored(c)'.transaction.txSignature # ""
                 /\ Stored(c).transaction.signedMessage # "" =>
                        Stored(c)'.transaction.signedMessage # ""]_vars

\* C20: the key that opens a stored record is not the hash part of its lookup
\* key (the codeHash of the responses): knowing the lookup key and the
\* ciphertext is not enough to decrypt.
HashOfLookupKey(key) == key.hash
C20_LookupKeyDoesNotOpen ==
    \A key \in StoreKeys :
        store[key].present => store[key].blob.key # HashOfLookupKey(key)

\* The lookup key of a code, and the steps in which a handler's get is answered.
LookupKey(code) == getKey(sha256(code))
GotPcs == {"v_got", "s_got", "a_got", "f_got"}

\* C21: every get returns, and every set writes, the entry under
\* getKey(sha256(code)) of the code the request carries and leaves the entries
\* of other codes alone; every lookup key is the prefix with the digest of a
\* code; the entry of a code holds the record of that code sealed under it, so
\* what Register wrote for a code is what the later operations on it read.
C21_SameKeyEverywhere ==
    [][/\ \A k \in DOMAIN store : \E c \in Codes : k = getKey(sha256(c)) /\ k.hash = sha256(c)
       /\ \A c \in Codes :
            store[getKey(sha256(c))]'.present =>
                /\ store[getKey(sha256(c))]'.blob.pt.code = c
                /\ store[getKey(sha256(c))]'.blob.key = deriveKey(c)
       /\ \A r \in Reqs, c \in Codes :
            /\ (req[r].pc = "idle" /\ req'[r].code = c /\ req'[r].pc \in GotPcs) =>
                   /\ req'[r].found = Live(store[getKey(sha256(c))], now)
                   /\ req'[r].found => req'[r].got = store[getKey(sha256(c))].blob
            /\ (req[r].code = c /\ ~req[r].wrote /\ req'[r].wrote) =>
                   /\ store[getKey(sha256(c))]'.blob = req[r].setBlob
                   /\ \A k \in DOMAIN store \ {getKey(sha256(c))} : store'[k] = store[k]
       /\ store' # store => \E r \in Reqs : ~req[r].wrote /\ req'[r].wrote]_vars
C21_Witness ==
    \E r \in Reqs :
        /\ Done(r, "finalize", "success") /\ req[r].wrote /\ req[r].code = "c2"
        /\ store[LookupKey("c2")].blob.pt.transaction.txSignature = req[r].sig
        /\ store[LookupKey("c1")].present
        /\ StatusOf(store[LookupKey("c1")].blob.pt) = "pending"

\* C22: with a record stored for code c and none for another code d, a
\* Resolve, an Attach and a Finalize on d answer CODE_NOT_FOUND (404), not a
\* decryption error, and do not change the store.
C22_WrongCodeNotFound ==
    [][\A r \in Reqs, c \in Codes : \A d \in Codes \ {c} :
          (/\ req[r].code = d /\ req[r].op \in {"resolve", "attach", "finalize"}
           /\ req[r].pc \in GotPcs /\ req'[r].pc # req[r].pc
           /\ store[getKey(sha256(c))].present
           /\ ~store[getKey(sha256(d))].present) =>
              Answers(r, "CODE_NOT_FOUND", 404) /\ store' = store]_vars
C22_Witness ==
    \E r \in Reqs :
        /\ Done(r, "attach", "CODE_NOT_FOUND") /\ ~req[r].wrote /\ req[r].code = "c2"
        /\ ~store[LookupKey("c2")].present
        /\ store[LookupKey("c1")].present
        /\ StatusOf(store[LookupKey("c1")].blob.pt) = "resolved"

\* The records that differ from rec in the pubkey, the metadata and the bytes
\* of the attached transaction only.
Variants(rec) ==
    {[rec EXCEPT !.pubkey = p, !.metadata = m, !.transaction.transaction = b] :
        p \in {"P1", "P2"}, m \in Metas,
        b \in IF rec.transaction.transaction = "" THEN {""} ELSE TxPayloads}

\* C23: the Status response to a stored record carries status, expiresAt,
\* hasTransaction, hasMessage, signedMessage and finalizedSignature and nothing
\* else of the record - no transaction, no metadata - and it is the same for
\* every record that differs only in pubkey, metadata or the bytes of the
\* attached transaction.
C23_StatusDisclosesLittle ==
    [][\A r \in Reqs :
          (Steps(r, "status", "s_got") /\ Holds(r)) =>
              LET rec == ReadRec(r)
                  out == req'[r].resp
              IN  /\ out.kind = "success"
                  /\ out.transaction = NoTx /\ out.metadata = NoMeta
                  /\ out.remainingInSeconds = 0 /\ out.body = NoBody
                  /\ out.hasTransaction = (rec.transaction.transaction # "")
                  /\ out.hasMessage = (rec.transaction.message # "")
                  /\ out.signedMessage = rec.transaction.signedMessage
                  /\ out.finalizedSignature = rec.transaction.txSignature
                  /\ \A v \in Variants(rec) : StatusView(v, now) = out]_vars
C23_Witness ==
    \E r \in Reqs, c \in Codes :
        /\ req[r].code = c /\ Done(r, "status", "success")
        /\ req[r].resp.hasTransaction /\ req[r].resp.finalizedSignature = "S1"
        /\ Stored(c).transaction.transaction = "B2"
        /\ Stored(c).metadata # NoMeta

C25_MetadataMerged ==
    [][\A r \in Reqs, c \in Codes :
          req[r].code = c =>
              /\ Writes(r, "register", "r_setting") =>
                     \A k \in MetaKeys :
                         req[r].meta[k] # NoValue => Stored(c)'.metadata[k] = req[r].meta[k]
              /\ Writes(r, "attach", "a_setting") =>
                     Stored(c)'.metadata = Merge(Stored(c).metadata, req[r].meta)
              /\ Writes(r, "finalize", "f_setting") =>
                     Stored(c)'.metadata = Stored(c).metadata
              /\ (Steps(r, "resolve", "v_got") /\ Holds(r)) =>
                     req'[r].resp.metadata = Stored(c).metadata]_vars

\* C26: when the ledger has no such transaction, the transaction failed, the
\* adapter rejects it, the query throws or the signed message is invalid,
\* Finalize answers SIGNATURE_INVALID (400) and the store is as it was, an
\* attached record still attached and not finalized; a Finalize on it whose
\* proof is verified goes on to the set and, the store taking it, succeeds.
ProofFaults == {"not_found", "failed", "invalid", "throws", "message"}
C26_UnverifiedProofRejected ==
    [][\A r \in Reqs, c \in Codes :
          (req[r].code = c /\ req[r].op = "finalize" /\ req'[r] # req[r]) =>
              /\ req'[r].fault \in ProofFaults =>
                     /\ Answers(r, "SIGNATURE_INVALID", 400)
                     /\ store' = store
                     /\ req[r].saw = "resolved" => StatusOf(Stored(c)') = "resolved"
              /\ (req[r].pc = "f_verifying" /\ req'[r].fault = "") =>
                     /\ req'[r].pc = "f_setting"
                     /\ req'[r].rec.transaction.txSignature = req[r].sig
              /\ (req[r].pc = "f_setting" /\ req'[r].fault = "") =>
                     /\ req'[r].wrote /\ req'[r].resp.kind = "success"
                     /\ StatusOf(Stored(c)') = "finalized"]_vars
C26_Witness ==
    \E r \in Reqs, c \in Codes :
        /\ req[r].code = c /\ Done(r, "finalize", "SIGNATURE_INVALID") /\ ~req[r].wrote
        /\ req[r].fault = "failed"
        /\ Live(Entry(c), now) /\ StatusOf(Stored(c)) = "resolved"
        /\ now < Stored(c).timestamp + CODE_TTL

\* C27: in Register, Resolve, Attach and Finalize, a store outage on the get or
\* on the set and an adapter call that throws are each answered with
\* UNKNOWN_ERROR (500).
Unexpected == {"get", "set", "adapter"}
C27_UnexpectedIsUnknownError ==
    [][\A r \in Reqs :
          (req'[r] # req[r] /\ req'[r].op \in {"register", "resolve", "attach", "finalize"}
              /\ req'[r].fault \in Unexpected) =>
              /\ req'[r].pc = "done"
              /\ req'[r].resp.kind = "UNKNOWN_ERROR" /\ req'[r].resp.http = 500]_vars

\* The error kinds, and the envelope of ActionCodesRelayerError.
ErrorKinds == {"INVALID_PAYLOAD", "SIGNATURE_INVALID", "CODE_EXPIRED", "DUPLICATE_CODE",
               "CODE_NOT_FOUND", "TX_ALREADY_ATTACHED", "TX_MISSING", "UNSUPPORTED_CHAIN",
               "ADAPTER_NOT_FOUND", "INVALID_INTENT_TYPE", "UNKNOWN_ERROR"}
IsEnvelope(resp) == /\ resp.body.error = "true"
                    /\ resp.body.code \in ErrorKinds
                    /\ resp.body.status = ToString(resp.http)
AnswersError(r) == req[r].pc # "done" /\ req'[r].pc = "done" /\ req'[r].resp.kind # "success"

\* C28 as stated: every error response of the five routes is the envelope
\* error = true, code = an error kind, status = the transport status; Status on
\* an absent code answers with code CODE_NOT_FOUND and status 404.
C28_UniformEnvelope ==
    [][\A r \in Reqs :
          AnswersError(r) =>
              /\ IsEnvelope(req'[r].resp)
              /\ (req[r].op = "status" /\ req[r].pc = "s_got" /\ ~req[r].found) =>
                     /\ req'[r].resp.body.code = "CODE_NOT_FOUND"
                     /\ req'[r].resp.body.status = "404"]_vars

\* C28 as amended: every error response of Register, Resolve, Attach and
\* Finalize is that envelope; an error response of Status is the pair
\* error = a message, status = "error", without a code, sent with transport
\* status 400, 404 or 500, and with 404 on an absent code.
C28_EnvelopePerRoute ==
    [][\A r \in Reqs :
          AnswersError(r) =>
              IF req'[r].op = "status"
              THEN /\ req'[r].resp.body.error \notin {"true", NoValue}
                   /\ req'[r].resp.body.code = NoValue
                   /\ req'[r].resp.body.status = "error"
                   /\ req'[r].resp.http \in {400, 404, 500}
                   /\ (req[r].pc = "s_got" /\ ~req[r].found) => req'[r].resp.http = 404
              ELSE /\ IsEnvelope(req'[r].resp)
                   /\ req'[r].resp.body.code = req'[r].resp.kind]_vars
C28_Witness ==
    \E r \in Reqs :
        /\ req[r].op = "status" /\ req[r].pc = "done" /\ req[r].saw = "absent"
        /\ req[r].resp.http = 404
        /\ req[r].resp.body = StatusErrorBody("Code not found or expired")

\* decryptField has run on the string that encryptField returned.
Opened == field.phase = "opened" /\ field.damage = "none"
\* The string a value comes back as: an unpaired surrogate is U+FFFD.
Scrubbed(text) == [i \in 1..Len(text) |-> IF text[i] = Surrogate THEN Replacement ELSE text[i]]

\* C29 as stated: a string sealed under a code and opened under the same code
\* comes back as it was, whatever the string.
C29_RoundTrip ==
    (Opened /\ field.openCode = field.code) =>
        field.out.ok /\ field.out.text = field.value

\* C29 as amended: a sealed string has the IV and the ciphertext around one
\* separator; opened under the same code it comes back as it was if it is
\* well-formed UTF-16 - the empty string and strings with ':' included - and
\* with U+FFFD for each unpaired surrogate otherwise.
C29_RoundTripWellFormed ==
    /\ field.phase # "empty" =>
           /\ Len(field.sealed) = 3 /\ field.sealed[2].sep
           /\ ~field.sealed[1].sep /\ ~field.sealed[3].sep
    /\ (Opened /\ field.openCode = field.code) =>
           /\ field.out.ok
           /\ field.out.text = Scrubbed(field.value)
           /\ WellFormed(field.value) => field.out.text = field.value
C29_Witness ==
    /\ Opened /\ field.openCode = field.code
    /\ Len(field.value) = MaxLen /\ field.value[1] = ":"
    /\ field.out.ok /\ field.out.text = field.value

\* C30: a string sealed under one code and opened under another never comes
\* back as a string: decryptField throws.
C30_WrongCodeFails ==
    (Opened /\ field.openCode # field.code) => ~field.out.ok

\* encryptField has run twice on the same value and code.
SealedTwice == field.iv2 # 0

C40_MalformedRejected ==
    (field.phase = "opened" /\ field.damage # "none") => ~field.out.ok

\* How far a handler has come: the awaits of a handler follow one another.
PcRank(pc) ==
    CASE pc = "idle" -> 0
      [] pc \in {"s_got", "v_got", "a_got", "f_got"} -> 1
      [] pc \in {"a_signing", "f_verifying"} -> 2
      [] pc \in {"r_setting", "a_setting", "f_setting"} -> 3
      [] pc = "done" -> 4

\* C32: every request that has started ends with a response, a success or a
\* typed error, once the calls it awaits return or throw; a handler moves only
\* forward through its awaits, and the response it gave stays the response
\* until the slot is free again.
C32_OneResponse ==
    /\ \A r \in Reqs : InFlight(r) ~> (req[r].pc = "done")
    /\ [][\A r \in Reqs :
            /\ (InFlight(r) /\ req'[r].pc # req[r].pc) =>
                   PcRank(req'[r].pc) > PcRank(req[r].pc)
            /\ req'[r].pc = "done" =>
                   req'[r].resp.kind \in ErrorKinds \cup {"success", "status-error"}
            /\ req[r].pc = "done" =>
                   req'[r] = req[r] \/ req'[r] = IdleReq]_vars
C32_Witness ==
    \E r \in Reqs :
        /\ req[r].op = "finalize" /\ req[r].pc = "done"
        /\ req[r].sig # "" /\ req[r].wrote
        /\ PcRank(req[r].pc) = 4
        /\ req[r].resp.kind = "success"

\* C33: Finalize decides on the chain of the record it read: an unexpired record
\* with a payload and no proof yields INVALID_PAYLOAD (400) if it has no chain
\* and UNSUPPORTED_CHAIN (400) if its chain is not solana, without a write; a
\* record with nothing attached yields TX_MISSING and a finalized one
\* TX_ALREADY_ATTACHED whatever the chain; and a record read at or after
\* timestamp + TTL yields CODE_EXPIRED whatever its chain and proof state.
C33_ChainFromRecord ==
    [][\A r \in Reqs :
          (Steps(r, "finalize", "f_got") /\ Holds(r)) =>
              LET rec == ReadRec(r)
                  expired == now >= rec.timestamp + CODE_TTL
              IN  /\ expired => Answers(r, "CODE_EXPIRED", 410)
                  /\ (~expired /\ TxMissing(rec)) => Answers(r, "TX_MISSING", 400)
                  /\ (~expired /\ ~TxMissing(rec) /\ AlreadyFinalized(rec)) =>
                         Answers(r, "TX_ALREADY_ATTACHED", 409)
                  /\ (~expired /\ ~TxMissing(rec) /\ ~AlreadyFinalized(rec)) =>
                         /\ rec.chain = "" =>
                                Answers(r, "INVALID_PAYLOAD", 400) /\ store' = store
                         /\ rec.chain \notin {"", "solana"} =>
                                Answers(r, "UNSUPPORTED_CHAIN", 400) /\ store' = store]_vars

\* --------------------------------------------- the error class on its own
ErrorArgs ==
    [code : ErrorKinds,
     message : {"Invalid payload", "Code expired"},
     status : {<<>>, <<0>>, <<DefaultStatus>>, <<401>>, <<410>>, <<500>>},
     details : {<<>>, <<[keys |-> {}]>>, <<[keys |-> {"code", "pubkey"}]>>}]
InitError ==
    /\ now = T0
    /\ store = [k \in StoreKeys |-> NoEntry]
    /\ req = [r \in Reqs |-> IdleReq]
    /\ sequential = TRUE
    /\ field = NoField
    /\ \E a \in ErrorArgs : thrown = [NoError EXCEPT !.phase = "args", !.args = a]
Construct ==
    /\ thrown.phase = "args"
    /\ thrown' = [thrown EXCEPT !.phase = "built",
                                !.err = ActionCodesRelayerError(thrown.args.code,
                                            thrown.args.message, thrown.args.status,
                                            thrown.args.details)]
    /\ UNCHANGED <<now, store, req, sequential, field>>
Render ==
    /\ thrown.phase = "built"
    /\ thrown' = [thrown EXCEPT !.phase = "rendered", !.json = ErrorToJSON(thrown.err)]
    /\ UNCHANGED <<now, store, req, sequential, field>>
NextError == Construct \/ Render
SpecError == InitError /\ [][NextError]_vars

\* C34: an ActionCodesRelayerError built without a status has status 400
\* whatever its code; its toJSON has exactly the fields error = true, code,
\* message and status, and a details field exactly when details were given,
\* an empty details object included.
C34_ErrorShape ==
    LET a == thrown.args
        given == Len(a.details) > 0
    IN  /\ (thrown.phase \in {"built", "rendered"} /\ Len(a.status) = 0) =>
               thrown.err.status = 400
        /\ thrown.phase = "rendered" =>
               /\ DOMAIN thrown.json = {"error", "code", "message", "status"}
                                           \cup (IF given THEN {"details"} ELSE {})
               /\ thrown.json.error = TRUE
               /\ thrown.json.code = a.code /\ thrown.json.message = a.message
               /\ thrown.json.status = (IF Len(a.status) = 0 THEN 400 ELSE a.status[1])
               /\ given => thrown.json.details = a.details[1]
C34_Witness ==
    /\ thrown.phase = "rendered"
    /\ thrown.args.code = "CODE_NOT_FOUND" /\ Len(thrown.args.status) = 0
    /\ thrown.args.details = <<[keys |-> {}]>>
    /\ thrown.json.status = 400
    /\ "details" \in DOMAIN thrown.json

\* C35: no store write of an Attach or a Finalize takes effect at a clock value
\* greater than timestamp + TTL of the record the request read, however long
\* the adapter's signing call or the ledger query took.
C35_NoWriteAfterDeadline ==
    [][\A r \in Reqs :
          (Writes(r, "attach", "a_setting") \/ Writes(r, "finalize", "f_setting")) =>
              now <= req[r].rec.timestamp + CODE_TTL]_vars

\* C36: a Register, Attach or Finalize request that was answered with an error
\* envelope has not written the store.
C36_ErrorMeansNoWrite ==
    \A r \in Reqs :
        (/\ req[r].op \in {"register", "attach", "finalize"}
         /\ req[r].pc = "done"
         /\ req[r].resp.kind \in ErrorKinds) => ~req[r].wrote

\* C37: the proof on a stored record is of the kind of its payload: a signed
\* message only on a record with a message attached, a transaction signature
\* only on a record with a transaction attached; and a Finalize stamps a signed
\* message only after checking it against a message that is not empty.
C37_ProofMatchesPayload ==
    /\ \A c \in Codes :
           StoreGet(c).present =>
               /\ Stored(c).transaction.signedMessage # "" =>
                      Stored(c).transaction.message # ""
               /\ Stored(c).transaction.txSignature # "" =>
                      Stored(c).transaction.transaction # ""
    /\ \A r \in Reqs :
           (req[r].op = "finalize" /\ req[r].pc = "f_setting" /\ req[r].sig = "") =>
               req[r].rec.transaction.message # ""

\* C38: no stored record is one that Attach takes as attached and Finalize as
\* not attached; after an Attach was answered with success - the optional
\* transaction or message left out included - the record reads as resolved and
\* Finalize does not find the payload missing.
C38_AttachedAgreed ==
    /\ \A c \in Codes :
           StoreGet(c).present => ~(AlreadyAttached(Stored(c)) /\ TxMissing(Stored(c)))
    /\ \A r \in Reqs :
           Done(r, "attach", "success") =>
               /\ StatusOf(Stored(req[r].code)) = "resolved"
               /\ ~TxMissing(Stored(req[r].code))

\* C39: a store write of an Attach or a Finalize never replaces a registration
\* by an older one: the record it writes has the timestamp and the pubkey of
\* the record that is in the store when the write takes effect, also when a
\* Register on the code completed after the request had read.
C39_RegisterNotUndone ==
    [][\A r \in Reqs, c \in OneCode :
          (/\ req[r].code = c
           /\ Writes(r, "attach", "a_setting") \/ Writes(r, "finalize", "f_setting")
           /\ StoreGet(c).present) =>
              /\ Stored(c)'.timestamp = Stored(c).timestamp
              /\ Stored(c)'.pubkey = Stored(c).pubkey]_vars
====
